---- MODULE Spec2Model ----
(***************************************************************************)
(* A model of olom.py, the one-line falling-block game: the piece          *)
(* generators, the rectangle scan (find_rect), clearing and gravity        *)
(* (clear_rects), the per-tick engine (update_game), the message timer     *)
(* (update_message) and the driving loop (curses_main).                    *)
(*                                                                         *)
(* Conventions.  Python lists are sequences; the source indexes from 0, so *)
(* At(s, i) reads s[i] of the source.  An Optional value is None (the      *)
(* empty sequence) or Some(x) (the one-element sequence <<x>>).  A message *)
(* text "+a +b" is kept as the sequence <<a, b>> of the score gains it     *)
(* prints.  The loop counter clock_tick is only ever read through          *)
(* clock_tick % 5, so the model keeps its residue.                         *)
(***************************************************************************)
EXTENDS Integers, Sequences, FiniteSets, TLC

VARIABLES
    state,       \* the GameState object
    pg,          \* the piece generator closure (mode, pattern, pattern_index)
    message,     \* curses_main's local: the live message, or None
    m,           \* curses_main's local: what the last update_game returned
    clock_tick,  \* curses_main's local, modulo CLOCK_PERIOD
    pc,          \* where the program is
    decays,      \* history: update_message calls applied to the live message
    gated,       \* history: clock-gated ticks since the piece in slot 0 was loaded
    arg,         \* the argument of a function called on its own
    ret          \* the value a function called on its own returned

vars == <<state, pg, message, m, clock_tick, pc, decays, gated, arg, ret>>

---------------------------------------------------------------------------
(* Program constants *)

FIELD_WIDTH == 10
PIECE_WIDTH == 3
PIECE_BLOCKS == 4
MIN_RECT_WIDTH == 4
MESSAGE_SHOW_DURATION == 15
GAME_OVER_HEIGHT == 11
CLOCK_PERIOD == 5
SPEEDUP_PERIOD == 80
SPEEDUP_GUARD == 5
INITIAL_PIECE_POS == 9
INITIAL_DROP_POS == 9

NO_KEY == -1
KEY_DOWN == 258
KEY_LEFT == 260
KEY_RIGHT == 261
ORD_A == 97
ORD_D == 100
ORD_S == 115
ORD_Q == 113
KEY_ESC == 27
ORD_X == 120

---------------------------------------------------------------------------
(* Bounds of the model *)

MaxDropped == 2         \* pieces committed in the game specification
MaxDroppedSpeed == 485  \* pieces committed in the speed specification
MaxDroppedPlay == 3     \* pieces committed in the wide-piece specification
MaxFieldLen == 5        \* longest field given to find_rect on its own
MaxMinLength == 6       \* largest min_length given to find_rect on its own
MaxPatternLen == 4      \* longest string given to scan_piece_pattern
MaxHeight == 2          \* largest column height given to find_rect / clear_rects

---------------------------------------------------------------------------
(* Optional values and 0-based indexing *)

None == <<>>
Some(x) == <<x>>
Get(o) == o[1]
At(s, i) == s[i + 1]

Keys == {NO_KEY, KEY_LEFT, ORD_A, KEY_RIGHT, ORD_D, KEY_DOWN, ORD_S, ORD_X}
QuitKeys == {KEY_ESC, ORD_Q}

RECURSIVE Sum(_)
Sum(s) == IF s = <<>> THEN 0 ELSE Head(s) + Sum(Tail(s))

Repeat(v, n) == [i \in 1..n |-> v]

---------------------------------------------------------------------------
(* Message *)

Message(text) == [text |-> text, time_left |-> MESSAGE_SHOW_DURATION]

---------------------------------------------------------------------------
(* Piece generators *)

RECURSIVE StripLeading(_)
StripLeading(cells) ==
    IF cells[1] = 0 THEN StripLeading(Tail(cells)) ELSE cells

RECURSIVE StripTrailing(_)
StripTrailing(cells) ==
    IF cells[Len(cells)] = 0
    THEN StripTrailing(SubSeq(cells, 1, Len(cells) - 1))
    ELSE cells

\* Variant of gen_piece_random without the second trimming loop.
gen_piece_random_keep_trailing(width, blocks, rnd) ==
    LET cells == [i \in 1..width |->
                    Cardinality({k \in 1..blocks : rnd[k] = i - 1})]
    IN StripLeading(cells)

\* rnd is the sequence of values random.randrange(width) returns, one per block.
gen_piece_random(width, blocks, rnd) ==
    LET cells == [i \in 1..width |->
                    Cardinality({k \in 1..blocks : rnd[k] = i - 1})]
    IN StripTrailing(StripLeading(cells))

RandomPicks == [1..PIECE_BLOCKS -> 0..(PIECE_WIDTH - 1)]

get_random_piece_generator ==
    [mode |-> "", piece_pattern |-> <<>>, pattern_index |-> 0]

get_pattern_piece_generator(piece_pattern) ==
    [mode |-> "pat", piece_pattern |-> piece_pattern, pattern_index |-> 0]

\* Variant of gen_piece_pattern that never advances pattern_index.
gen_piece_pattern_stuck(g) ==
    [piece |-> At(g.piece_pattern, g.pattern_index), pg |-> g]

gen_piece_pattern(g) ==
    [piece |-> At(g.piece_pattern, g.pattern_index),
     pg |-> [g EXCEPT !.pattern_index = (@ + 1) % Len(g.piece_pattern)]]

\* One call of the configured generator; rnd is read by the random one only.
piece_generator(g, rnd) ==
    IF g.mode = "pat"
    THEN gen_piece_pattern(g)
    ELSE [piece |-> gen_piece_random(PIECE_WIDTH, PIECE_BLOCKS, rnd), pg |-> g]

RandomSource(g) == IF g.mode = "pat" THEN {<<>>} ELSE RandomPicks

---------------------------------------------------------------------------
(* Field model *)

RECURSIVE RunEnd(_, _, _)
RunEnd(game_field, v, d) ==
    IF d < Len(game_field) /\ At(game_field, d) = v
    THEN RunEnd(game_field, v, d + 1)
    ELSE d

RECURSIVE find_rect_from(_, _, _)
find_rect_from(game_field, min_length, c) ==
    IF c >= Len(game_field) - min_length + 1
    THEN None
    ELSE LET v == At(game_field, c)
             d == RunEnd(game_field, v, c)
         IN IF v > 0 /\ d - c >= min_length
            THEN Some(<<c, d>>)
            ELSE find_rect_from(game_field, min_length, c + 1)

\* Variant of find_rect that asks for a run longer than min_length.
RECURSIVE find_rect_from_strict(_, _, _)
find_rect_from_strict(game_field, min_length, c) ==
    IF c >= Len(game_field) - min_length + 1
    THEN None
    ELSE LET v == At(game_field, c)
             d == RunEnd(game_field, v, c)
         IN IF v > 0 /\ d - c > min_length
            THEN Some(<<c, d>>)
            ELSE find_rect_from_strict(game_field, min_length, c + 1)

find_rect_strict(game_field, min_length) ==
    find_rect_from_strict(game_field, min_length, 0)

\* Variant of find_rect that looks for a run at column 0 only.
find_rect_at_zero(game_field, min_length) ==
    IF Len(game_field) < min_length THEN None
    ELSE LET v == At(game_field, 0)
             d == RunEnd(game_field, v, 0)
         IN IF v > 0 /\ d >= min_length THEN Some(<<0, d>>) ELSE None

find_rect(game_field, min_length) == find_rect_from(game_field, min_length, 0)

\* Variant of check_game_over with the threshold one lower.
check_game_over_early(game_field) ==
    \E i \in 1..Len(game_field) : game_field[i] >= GAME_OVER_HEIGHT - 1

check_game_over(game_field) ==
    \E i \in 1..Len(game_field) : game_field[i] >= GAME_OVER_HEIGHT

\* Variant of fix_piece that overwrites the columns under the piece.
fix_piece_assign(s) ==
    IF s.piece_queue[1] /= None
    THEN LET piece == Get(s.piece_queue[1])
         IN [s EXCEPT !.game_field =
                [i \in 1..Len(s.game_field) |->
                    LET c == i - 1
                    IN IF c < FIELD_WIDTH /\ s.piece_col <= c
                          /\ c < s.piece_col + Len(piece)
                       THEN At(piece, c - s.piece_col)
                       ELSE s.game_field[i]]]
    ELSE s

fix_piece(s) ==
    IF s.piece_queue[1] /= None
    THEN LET piece == Get(s.piece_queue[1])
         IN [s EXCEPT !.game_field =
                [i \in 1..Len(s.game_field) |->
                    LET c == i - 1
                    IN IF c < FIELD_WIDTH /\ s.piece_col <= c
                          /\ c < s.piece_col + Len(piece)
                       THEN s.game_field[i] + At(piece, c - s.piece_col)
                       ELSE s.game_field[i]]]
    ELSE s

\* Variant of ScoreAdd that squares the excess width.
ScoreAddSquare(num, c, d) ==
    LET width == d - c - MIN_RECT_WIDTH + 1
    IN num * width ^ 2

ScoreAdd(num, c, d) ==
    LET width == d - c - MIN_RECT_WIDTH + 1
    IN num * width ^ 3

\* The while loop of clear_rects; acc holds game_field, score, message_text
\* and rect_found.
RECURSIVE clear_loop(_)
clear_loop(acc) ==
    LET r == find_rect(acc.game_field, MIN_RECT_WIDTH)
    IN IF r = None
       THEN acc
       ELSE LET c == Get(r)[1]
                d == Get(r)[2]
                num == At(acc.game_field, c)
                score_add == ScoreAdd(num, c, d)
            IN clear_loop(
                 [game_field |->
                     [i \in 1..Len(acc.game_field) |->
                         IF c <= i - 1 /\ i - 1 < d THEN 0 ELSE acc.game_field[i]],
                  score |-> acc.score + score_add,
                  message_text |-> Append(acc.message_text, score_add),
                  rect_found |-> TRUE])

\* Variant of Gravity without the test for a nonzero column.
GravityUnguarded(game_field) ==
    [i \in 1..Len(game_field) |-> game_field[i] - 1]

Gravity(game_field) ==
    [i \in 1..Len(game_field) |->
        IF game_field[i] > 0 THEN game_field[i] - 1 ELSE game_field[i]]

\* Variant of clear_rects that returns a message whether or not a run was
\* cleared.
clear_rects_always_message(s) ==
    LET acc == clear_loop([game_field |-> s.game_field, score |-> s.score,
                           message_text |-> <<>>, rect_found |-> FALSE])
        settled == IF acc.rect_found THEN Gravity(acc.game_field)
                   ELSE acc.game_field
    IN [state |-> [s EXCEPT !.game_field = settled, !.score = acc.score],
        message |-> Some(Message(acc.message_text))]

clear_rects(s) ==
    LET acc == clear_loop([game_field |-> s.game_field, score |-> s.score,
                           message_text |-> <<>>, rect_found |-> FALSE])
        settled == IF acc.rect_found THEN Gravity(acc.game_field)
                   ELSE acc.game_field
    IN [state |-> [s EXCEPT !.game_field = settled, !.score = acc.score],
        message |-> IF acc.message_text /= <<>>
                    THEN Some(Message(acc.message_text))
                    ELSE None]

---------------------------------------------------------------------------
(* Game engine *)

GameState(piece_queue) ==
    [game_field |-> Repeat(0, FIELD_WIDTH),
     piece_queue |-> piece_queue,
     piece_col |-> 0,
     piece_pos |-> INITIAL_PIECE_POS,
     score |-> 0,
     piece_drop_pos |-> INITIAL_DROP_POS,
     pieces_dropped |-> 0]

\* Variant of HandleKey whose move-right bound is one too wide.
HandleKeyLoose(s, key) ==
    IF s.piece_queue[1] /= None
    THEN IF key \in {KEY_LEFT, ORD_A} /\ s.piece_col > 0
         THEN [s EXCEPT !.piece_col = @ - 1]
         ELSE IF key \in {KEY_RIGHT, ORD_D}
                 /\ s.piece_col <= FIELD_WIDTH - Len(Get(s.piece_queue[1]))
         THEN [s EXCEPT !.piece_col = @ + 1]
         ELSE IF key \in {KEY_DOWN, ORD_S}
         THEN [s EXCEPT !.piece_pos = 0]
         ELSE s
    ELSE s

\* Variant of HandleKey that applies the key whether or not slot 0 holds a
\* piece (an absent piece counts as width 0).
HandleKeyAlways(s, key) ==
    LET width == IF s.piece_queue[1] = None THEN 0
                 ELSE Len(Get(s.piece_queue[1]))
    IN IF key \in {KEY_LEFT, ORD_A} /\ s.piece_col > 0
       THEN [s EXCEPT !.piece_col = @ - 1]
       ELSE IF key \in {KEY_RIGHT, ORD_D} /\ s.piece_col < FIELD_WIDTH - width
       THEN [s EXCEPT !.piece_col = @ + 1]
       ELSE IF key \in {KEY_DOWN, ORD_S}
       THEN [s EXCEPT !.piece_pos = 0]
       ELSE s

\* Lines 361-373: the key is applied while slot 0 holds a piece.
HandleKey(s, key) ==
    IF s.piece_queue[1] /= None
    THEN IF key \in {KEY_LEFT, ORD_A} /\ s.piece_col > 0
         THEN [s EXCEPT !.piece_col = @ - 1]
         ELSE IF key \in {KEY_RIGHT, ORD_D}
                 /\ s.piece_col < FIELD_WIDTH - Len(Get(s.piece_queue[1]))
         THEN [s EXCEPT !.piece_col = @ + 1]
         ELSE IF key \in {KEY_DOWN, ORD_S}
         THEN [s EXCEPT !.piece_pos = 0]
         ELSE s
    ELSE s

\* Variant of SpeedUp that speeds up every 8 pieces.
SpeedUpEveryEight(pieces_dropped, piece_drop_pos) ==
    IF pieces_dropped % 8 = 0 /\ piece_drop_pos >= SPEEDUP_GUARD
    THEN piece_drop_pos - 1
    ELSE piece_drop_pos

\* Lines 390-392: the drop position after a commit.
SpeedUp(pieces_dropped, piece_drop_pos) ==
    IF pieces_dropped % SPEEDUP_PERIOD = 0 /\ piece_drop_pos >= SPEEDUP_GUARD
    THEN piece_drop_pos - 1
    ELSE piece_drop_pos

\* Lines 378-382: slot 0 is None; load the next piece.
Reload(s, g, rnd) ==
    LET gen == piece_generator(g, rnd)
    IN [state |-> [s EXCEPT !.piece_queue = Append(Tail(@), Some(gen.piece)),
                            !.piece_col = 0,
                            !.piece_pos = s.piece_drop_pos],
        message |-> None,
        pg |-> gen.pg]

\* Variant of Commit that pops slot 0 instead of marking it used.
CommitPop(s, g) ==
    LET cleared == clear_rects(fix_piece(s))
        dropped == s.pieces_dropped + 1
    IN [state |-> [cleared.state EXCEPT
                      !.piece_queue = Tail(@),
                      !.pieces_dropped = dropped,
                      !.piece_drop_pos = SpeedUp(dropped, @)],
        message |-> cleared.message,
        pg |-> g]

\* Lines 385-392: the piece has reached the bottom.
Commit(s, g) ==
    LET cleared == clear_rects(fix_piece(s))
        dropped == s.pieces_dropped + 1
    IN [state |-> [cleared.state EXCEPT
                      !.piece_queue = [@ EXCEPT ![1] = None],
                      !.pieces_dropped = dropped,
                      !.piece_drop_pos = SpeedUp(dropped, @)],
        message |-> cleared.message,
        pg |-> g]

\* Variant of ClockStep that lets a falling piece descend in every tick.
ClockStepUngated(s, tick, g, rnd) ==
    IF s.piece_queue[1] = None
    THEN IF tick % CLOCK_PERIOD = 0
         THEN Reload(s, g, rnd)
         ELSE [state |-> s, message |-> None, pg |-> g]
    ELSE IF s.piece_pos = 0
    THEN IF tick % CLOCK_PERIOD = 0
         THEN Commit(s, g)
         ELSE [state |-> s, message |-> None, pg |-> g]
    ELSE [state |-> [s EXCEPT !.piece_pos = @ - 1],
          message |-> None, pg |-> g]

\* Variant of ClockStep that commits a piece one step above the bottom.
ClockStepEarly(s, tick, g, rnd) ==
    IF tick % CLOCK_PERIOD = 0
    THEN IF s.piece_queue[1] = None
         THEN Reload(s, g, rnd)
         ELSE IF s.piece_pos <= 1
         THEN Commit(s, g)
         ELSE [state |-> [s EXCEPT !.piece_pos = @ - 1],
               message |-> None, pg |-> g]
    ELSE [state |-> s, message |-> None, pg |-> g]

\* Lines 376-394: the clock-gated step.
ClockStep(s, tick, g, rnd) ==
    IF tick % CLOCK_PERIOD = 0
    THEN IF s.piece_queue[1] = None
         THEN Reload(s, g, rnd)
         ELSE IF s.piece_pos = 0
         THEN Commit(s, g)
         ELSE [state |-> [s EXCEPT !.piece_pos = @ - 1],
               message |-> None, pg |-> g]
    ELSE [state |-> s, message |-> None, pg |-> g]

\* Variant of update_game that runs the clock-gated step before the key.
update_game_clock_first(s, key, tick, g, rnd) ==
    LET stepped == ClockStep(s, tick, g, rnd)
    IN [stepped EXCEPT !.state = HandleKey(@, key)]

update_game(s, key, tick, g, rnd) == ClockStep(HandleKey(s, key), tick, g, rnd)

\* Variant of update_message that drops the message one call late.
update_message_late(msg) ==
    IF msg /= None
    THEN IF Get(msg).time_left > 0
         THEN Some([Get(msg) EXCEPT !.time_left = @ - 1])
         ELSE None
    ELSE msg

update_message(msg) ==
    IF msg /= None
    THEN IF Get(msg).time_left > 0
         THEN IF Get(msg).time_left - 1 = 0
              THEN None
              ELSE Some([Get(msg) EXCEPT !.time_left = @ - 1])
         ELSE msg
    ELSE msg

---------------------------------------------------------------------------
(* The driving loop, curses_main *)

NextDecays(msg, returned) ==
    IF returned /= None THEN 0
    ELSE IF msg /= None /\ update_message(msg) /= None THEN decays + 1
    ELSE 0

\* The clock-gated ticks the piece in slot 0 has been through: a reload
\* starts the count, every other clock-gated tick adds one.
NextGated(s, tick) ==
    IF tick % CLOCK_PERIOD /= 0 THEN gated
    ELSE IF s.piece_queue[1] = None THEN 0
    ELSE gated + 1

\* Lines 446-449: the state after construction, for a configured generator
\* whose first three pieces are drawn with r1, r2, r3.
Start(g, r1, r2, r3) ==
    LET g1 == piece_generator(g, r1)
        g2 == piece_generator(g1.pg, r2)
        g3 == piece_generator(g2.pg, r3)
    IN /\ state = GameState(<<Some(g1.piece), Some(g2.piece), Some(g3.piece)>>)
       /\ pg = g3.pg
       /\ message = None
       /\ m = None
       /\ clock_tick = 0
       /\ pc = "play"
       /\ decays = 0
       /\ gated = 0
       /\ arg = None
       /\ ret = None

\* Variant of Tick that keeps a live message when update_game returns one.
TickKeepLive(key, cap) ==
    /\ pc = "play"
    /\ ~check_game_over(state.game_field)
    /\ key \notin QuitKeys
    /\ \E rnd \in RandomSource(pg) :
         LET tick == (clock_tick + 1) % CLOCK_PERIOD
             res == update_game(state, key, tick, pg, rnd)
         IN /\ res.state.pieces_dropped <= cap
            /\ clock_tick' = tick
            /\ state' = res.state
            /\ pg' = res.pg
            /\ m' = res.message
            /\ message' = IF update_message(message) = None THEN res.message
                          ELSE update_message(message)
            /\ decays' = NextDecays(message, None)
            /\ gated' = NextGated(state, tick)
    /\ UNCHANGED <<pc, arg, ret>>

\* One iteration of the main loop that reaches update_game (lines 452-473).
Tick(key, cap) ==
    /\ pc = "play"
    /\ ~check_game_over(state.game_field)
    /\ key \notin QuitKeys
    /\ \E rnd \in RandomSource(pg) :
         LET tick == (clock_tick + 1) % CLOCK_PERIOD
             res == update_game(state, key, tick, pg, rnd)
         IN /\ res.state.pieces_dropped <= cap
            /\ clock_tick' = tick
            /\ state' = res.state
            /\ pg' = res.pg
            /\ m' = res.message
            /\ message' = IF res.message /= None THEN res.message
                          ELSE update_message(message)
            /\ decays' = NextDecays(message, res.message)
            /\ gated' = NextGated(state, tick)
    /\ UNCHANGED <<pc, arg, ret>>

\* An iteration of the main loop that ends at the quit key (lines 460-465).
Quit(key) ==
    /\ pc = "play"
    /\ ~check_game_over(state.game_field)
    /\ key \in QuitKeys
    /\ clock_tick' = (clock_tick + 1) % CLOCK_PERIOD
    /\ pc' = "exit"
    /\ UNCHANGED <<state, pg, message, m, decays, gated, arg, ret>>

\* The main loop's break on game over (lines 456-458).
GameOverBreak ==
    /\ pc = "play"
    /\ check_game_over(state.game_field)
    /\ pc' = "over"
    /\ UNCHANGED <<state, pg, message, m, clock_tick, decays, gated, arg, ret>>

\* One iteration of the game-over loop (lines 476-485).
OverIteration(key) ==
    /\ pc = "over"
    /\ message' = update_message(message)
    /\ decays' = NextDecays(message, None)
    /\ pc' = IF key \in QuitKeys THEN "exit" ELSE "over"
    /\ UNCHANGED <<state, pg, m, clock_tick, gated, arg, ret>>

---------------------------------------------------------------------------
(* The game, with the pattern generator *)

\* --piece-pattern "1111", "55,56" and "9,31111", as scan_piece_pattern
\* returns them.
GamePatterns ==
    { << <<1, 1, 1, 1>> >>,
      << <<5, 5>>, <<5, 6>> >>,
      << <<9>>, <<3, 1, 1, 1, 1>> >> }

Init ==
    \E pat \in GamePatterns :
        Start(get_pattern_piece_generator(pat), <<>>, <<>>, <<>>)

Next ==
    \/ \E key \in Keys : Tick(key, MaxDropped)
    \/ \E key \in QuitKeys : Quit(key)
    \/ GameOverBreak
    \/ \E key \in Keys \cup QuitKeys : OverIteration(key)

Spec == Init /\ [][Next]_vars

---------------------------------------------------------------------------
(* The game over many pieces: patterns as wide as the field, so that the   *)
(* field stays small while hundreds of pieces are committed.               *)

\* --piece-pattern "1111111111" and "9999999999,9999999998".
SpeedPatterns ==
    { << Repeat(1, FIELD_WIDTH) >>,
      << Repeat(9, FIELD_WIDTH), [i \in 1..FIELD_WIDTH |-> IF i = FIELD_WIDTH THEN 8 ELSE 9] >> }

InitSpeed ==
    \E pat \in SpeedPatterns :
        Start(get_pattern_piece_generator(pat), <<>>, <<>>, <<>>)

NextSpeed ==
    \/ \E key \in Keys : Tick(key, MaxDroppedSpeed)
    \/ \E key \in QuitKeys : Quit(key)
    \/ GameOverBreak
    \/ \E key \in Keys \cup QuitKeys : OverIteration(key)

SpecSpeed == InitSpeed /\ [][NextSpeed]_vars

----------------------------------------------------------------------------
(* The game with wide pieces: few columns to choose from, so that one more *)
(* piece can be committed.                                                 *)

\* --piece-pattern "1111" and "5656562,6565651".
PlayPatterns ==
    { << <<1, 1, 1, 1>> >>,
      << <<5, 6, 5, 6, 5, 6, 2>>, <<6, 5, 6, 5, 6, 5, 1>> >> }

InitPlay ==
    \E pat \in PlayPatterns :
        Start(get_pattern_piece_generator(pat), <<>>, <<>>, <<>>)

NextPlay ==
    \/ \E key \in Keys : Tick(key, MaxDroppedPlay)
    \/ \E key \in QuitKeys : Quit(key)
    \/ GameOverBreak
    \/ \E key \in Keys \cup QuitKeys : OverIteration(key)

SpecPlay == InitPlay /\ [][NextPlay]_vars

---------------------------------------------------------------------------
(* Functions called on their own, on inputs drawn from bounded sets *)

Idle(where, a) ==
    /\ pg = get_random_piece_generator
    /\ message = None
    /\ m = None
    /\ clock_tick = 0
    /\ pc = where
    /\ decays = 0
    /\ gated = 0
    /\ arg = a
    /\ ret = None

\* gen_piece_random, on every outcome of its random picks.
InitGen ==
    \E rnd \in RandomPicks :
        /\ state = GameState(<<>>)
        /\ Idle("call gen_piece_random", rnd)

CallGenPieceRandom ==
    /\ pc = "call gen_piece_random"
    /\ ret' = Some(gen_piece_random(PIECE_WIDTH, PIECE_BLOCKS, arg))
    /\ pc' = "returned gen_piece_random"
    /\ UNCHANGED <<state, pg, message, m, clock_tick, decays, gated, arg>>

NextGen == CallGenPieceRandom

SpecGen == InitGen /\ [][NextGen]_vars

\* find_rect, on every short field and every min_length.
FieldsOfLen(n) == [1..n -> 0..MaxHeight]

InitFindRect ==
    \E n \in 0..MaxFieldLen : \E f \in FieldsOfLen(n) :
    \E min_length \in 1..MaxMinLength :
        /\ state = [GameState(<<>>) EXCEPT !.game_field = f]
        /\ Idle("call find_rect", min_length)

CallFindRect ==
    /\ pc = "call find_rect"
    /\ ret' = find_rect(state.game_field, arg)
    /\ pc' = "returned find_rect"
    /\ UNCHANGED <<state, pg, message, m, clock_tick, decays, gated, arg>>

NextFindRect == CallFindRect

SpecFindRect == InitFindRect /\ [][NextFindRect]_vars

\* clear_rects, on every field of the game's width.
InitClearRects ==
    \E f \in FieldsOfLen(FIELD_WIDTH) :
        /\ state = [GameState(<<>>) EXCEPT !.game_field = f]
        /\ Idle("call clear_rects", f)

CallClearRects ==
    /\ pc = "call clear_rects"
    /\ state' = clear_rects(state).state
    /\ m' = clear_rects(state).message
    /\ pc' = "returned clear_rects"
    /\ UNCHANGED <<pg, message, clock_tick, decays, gated, arg, ret>>

NextClearRects == CallClearRects

SpecClearRects == InitClearRects /\ [][NextClearRects]_vars

----------------------------------------------------------------------------
(* scan_piece_pattern: a string is a sequence of one-character strings *)

Digits == {"0", "1", "2", "3", "4", "5", "6", "7", "8", "9"}

PatternChars == Digits \cup {","}

\* int() of a one-character string that is a digit.
int(ch) ==
    CASE ch = "0" -> 0 [] ch = "1" -> 1 [] ch = "2" -> 2 [] ch = "3" -> 3
      [] ch = "4" -> 4 [] ch = "5" -> 5 [] ch = "6" -> 6 [] ch = "7" -> 7
      [] ch = "8" -> 8 [] ch = "9" -> 9

\* Line 143: re.match(r"^[0-9,]+$", pattern). The class must match at least
\* one character, and $ matches at the end of the string or just before a
\* newline that ends it.
re_match(pattern) ==
    LET n == Len(pattern)
        body == IF n > 0 /\ pattern[n] = "\n" THEN SubSeq(pattern, 1, n - 1)
                ELSE pattern
    IN /\ Len(body) > 0
       /\ \A i \in 1..Len(body) : body[i] \in PatternChars

\* Line 145: str.split(sep) with a one-character separator.
RECURSIVE split(_, _)
split(str, sep) ==
    IF \A i \in 1..Len(str) : str[i] /= sep
    THEN <<str>>
    ELSE LET i == CHOOSE j \in 1..Len(str) :
                     str[j] = sep /\ \A k \in 1..(j - 1) : str[k] /= sep
         IN <<SubSeq(str, 1, i - 1)>> \o split(SubSeq(str, i + 1, Len(str)), sep)

Returned(pieces) == [raised |-> "", text |-> "", pieces |-> pieces]

Raised(exception, text) == [raised |-> exception, text |-> text, pieces |-> <<>>]

\* Lines 147-150: the groups in order; int() raises ValueError on a character
\* that is not a digit, before the sum of the group is looked at.
RECURSIVE scan_groups(_, _)
scan_groups(piece_strs, pieces) ==
    IF piece_strs = <<>> THEN Returned(pieces)
    ELSE LET str == Head(piece_strs)
         IN IF \E i \in 1..Len(str) : str[i] \notin Digits
            THEN Raised("ValueError", "invalid literal for int() with base 10")
            ELSE LET piece == [i \in 1..Len(str) |-> int(str[i])]
                 IN IF ~(Sum(piece) > 0)
                    THEN Raised("AssertionError", "Empty piece detected in pattern.")
                    ELSE scan_groups(Tail(piece_strs), Append(pieces, piece))

scan_piece_pattern(pattern) ==
    IF ~re_match(pattern)
    THEN Raised("AssertionError", "Invalid pattern format.")
    ELSE scan_groups(split(pattern, ","), <<>>)

\* scan_piece_pattern, on every short string over a few characters.
PatternAlphabet == {"0", "1", "2", ",", "x", "\n"}

InitScan ==
    \E n \in 0..MaxPatternLen : \E pattern \in [1..n -> PatternAlphabet] :
        /\ state = GameState(<<>>)
        /\ Idle("call scan_piece_pattern", pattern)

CallScanPiecePattern ==
    /\ pc = "call scan_piece_pattern"
    /\ ret' = Some(scan_piece_pattern(arg))
    /\ pc' = "returned scan_piece_pattern"
    /\ UNCHANGED <<state, pg, message, m, clock_tick, decays, gated, arg>>

NextScan == CallScanPiecePattern

SpecScan == InitScan /\ [][NextScan]_vars

---------------------------------------------------------------------------
(* Properties *)

\* The maximal runs of equal, strictly positive values of a field, as
\* half-open 0-based intervals <<start, end>>.
IsMaximalRun(f, start, end) ==
    /\ 0 <= start /\ start < end /\ end <= Len(f)
    /\ At(f, start) > 0
    /\ \A j \in start..(end - 1) : At(f, j) = At(f, start)
    /\ (start = 0 \/ At(f, start - 1) /= At(f, start))
    /\ (end = Len(f) \/ At(f, end) /= At(f, start))

Runs(f, min_length) ==
    {r \in (0..Len(f)) \X (0..Len(f)) :
        r[2] - r[1] >= min_length /\ IsMaximalRun(f, r[1], r[2])}

Covered(rs, c) == \E r \in rs : r[1] <= c /\ c < r[2]

Cube(n) == n * n * n

RunScore(f, r) == At(f, r[1]) * Cube(r[2] - r[1] - MIN_RECT_WIDTH + 1)

RECURSIVE SumOver(_, _)
SumOver(f, rs) ==
    IF rs = {} THEN 0
    ELSE LET r == CHOOSE x \in rs : TRUE
         IN RunScore(f, r) + SumOver(f, rs \ {r})

\* The runs of rs from left to right (runs of one field never overlap).
RECURSIVE LeftToRight(_)
LeftToRight(rs) ==
    IF rs = {} THEN <<>>
    ELSE LET r == CHOOSE x \in rs : \A y \in rs : x[1] <= y[1]
         IN <<r>> \o LeftToRight(rs \ {r})

ActivePiece == Get(state.piece_queue[1])

MaxColumn(f) == CHOOSE v \in {f[i] : i \in 1..Len(f)} :
                    \A i \in 1..Len(f) : f[i] <= v

----

\* C1 (as stated): every piece gen_piece_random returns has length 1..3, all
\* elements strictly greater than 0, and elements summing to 4.
C1_AllPositive ==
    pc = "returned gen_piece_random" =>
        LET piece == Get(ret)
        IN /\ Len(piece) \in 1..PIECE_WIDTH
           /\ \A i \in 1..Len(piece) : piece[i] > 0
           /\ Sum(piece) = PIECE_BLOCKS

\* C1 (amended): every piece gen_piece_random returns has length 1..3, first
\* and last elements strictly greater than 0, no negative element (an inner
\* element may be 0), and elements summing to 4.
C1_EndsPositive ==
    pc = "returned gen_piece_random" =>
        LET piece == Get(ret)
        IN /\ Len(piece) \in 1..PIECE_WIDTH
           /\ piece[1] > 0 /\ piece[Len(piece)] > 0
           /\ \A i \in 1..Len(piece) : piece[i] >= 0
           /\ Sum(piece) = PIECE_BLOCKS

\* C1 witness: the generator has returned a piece with an inner zero.
C1_Witness ==
    pc = "returned gen_piece_random" /\ ret = Some(<<2, 0, 2>>)

----

\* C2: piece_drop_pos is never below 5, however many pieces are dropped.
C2_DropPosFloor == state.piece_drop_pos >= 5

----

\* C3: find_rect returns the leftmost maximal run of equal, strictly positive
\* values of length >= min_length, and None exactly when there is none.
C3_FindRect ==
    pc = "returned find_rect" =>
        LET rs == Runs(state.game_field, arg)
        IN /\ (ret = None) <=> (rs = {})
           /\ ret /= None =>
                /\ Get(ret) \in rs
                /\ \A r \in rs : Get(ret)[1] <= r[1]

\* C3 witness: find_rect returned a run that lies left of a longer one.
C3_Witness ==
    /\ pc = "returned find_rect"
    /\ ret /= None
    /\ \E r \in Runs(state.game_field, arg) :
          r[2] - r[1] > Get(ret)[2] - Get(ret)[1]

----

\* C4: when clear_rects clears at least one run, every column of a cleared
\* run ends at 0, every other nonzero column is lower by exactly 1, and every
\* zero column stays 0 (arg is the field before the call).
C4_ClearAndGravity ==
    pc = "returned clear_rects" =>
        LET rs == Runs(arg, MIN_RECT_WIDTH)
        IN rs /= {} =>
             \A c \in 0..(FIELD_WIDTH - 1) :
                At(state.game_field, c) =
                    IF Covered(rs, c) THEN 0
                    ELSE IF At(arg, c) > 0 THEN At(arg, c) - 1
                    ELSE 0

\* C4 witness: two runs were cleared in one call and a column outside them
\* was lowered once, to a height that is still positive.
C4_Witness ==
    /\ pc = "returned clear_rects"
    /\ Cardinality(Runs(arg, MIN_RECT_WIDTH)) = 2
    /\ \E c \in 0..(FIELD_WIDTH - 1) :
          At(arg, c) = 2 /\ At(state.game_field, c) = 1

----

\* C5: each cleared run of value num and width w adds num * (w - 4 + 1)^3,
\* and one clear_rects call raises the score by the sum over its runs (the
\* message text lists the gains run by run; the score starts at 0).
C5_Score ==
    pc = "returned clear_rects" =>
        LET rs == Runs(arg, MIN_RECT_WIDTH)
            order == LeftToRight(rs)
        IN /\ state.score = SumOver(arg, rs)
           /\ (m = None) <=> (rs = {})
           /\ m /= None =>
                Get(m).text = [k \in 1..Len(order) |-> RunScore(arg, order[k])]

\* C5 witness: a run of value 2 and width 5 was cleared for 16, together
\* with a second run.
C5_Witness ==
    /\ pc = "returned clear_rects"
    /\ <<0, 5>> \in Runs(arg, MIN_RECT_WIDTH)
    /\ At(arg, 0) = 2
    /\ m /= None /\ Len(Get(m).text) = 2 /\ Get(m).text[1] = 16
    /\ state.score = 16 + Get(m).text[2]

----

\* C6: in every reachable state, update_game called with a clock_tick that
\* is not a multiple of 5 and with no key changes nothing of the game state
\* or the generator and returns no message.
C6_IdleTick ==
    \A tick \in 1..(CLOCK_PERIOD - 1) : \A rnd \in RandomSource(pg) :
        LET res == update_game(state, NO_KEY, tick, pg, rnd)
        IN res.state = state /\ res.pg = pg /\ res.message = None

\* C6 witness: a piece is in the air, away from the left edge, after a tick
\* that was not clock-gated.
C6_Witness ==
    /\ pc = "play"
    /\ clock_tick % CLOCK_PERIOD /= 0
    /\ state.piece_queue[1] /= None
    /\ state.piece_pos > 0 /\ state.piece_pos < state.piece_drop_pos
    /\ state.piece_col > 0
    /\ state.pieces_dropped > 0

----

\* C7: a message created with time_left 15 is present with time_left lowered
\* by 1 after each of the first 14 update_message calls and None at the
\* 15th; update_message of None is None.
C7_MessageTimer ==
    /\ update_message(None) = None
    /\ message /= None =>
         /\ decays <= MESSAGE_SHOW_DURATION - 1
         /\ Get(message).time_left = MESSAGE_SHOW_DURATION - decays
         /\ decays < MESSAGE_SHOW_DURATION - 1 =>
               update_message(message) =
                   Some([Get(message) EXCEPT !.time_left = @ - 1])
         /\ decays = MESSAGE_SHOW_DURATION - 1 => update_message(message) = None

\* C7 witness: a message has been through 14 update_message calls.
C7_Witness ==
    message /= None /\ decays = MESSAGE_SHOW_DURATION - 1

----

\* C8: the loop leaves play for game over exactly when a column is >= 11;
\* from then on the game state, generator and clock never change and only
\* the message timer decays.
C8_GameOverFrozen ==
    /\ [](pc = "over" => MaxColumn(state.game_field) >= 11)
    /\ [][pc = "play" =>
            ((pc' = "over") <=> MaxColumn(state.game_field) >= 11)]_vars
    /\ [][pc = "over" =>
            /\ pc' \in {"over", "exit"}
            /\ state' = state /\ pg' = pg /\ clock_tick' = clock_tick /\ m' = m
            /\ message' = update_message(message)]_vars
    /\ [][pc = "exit" => FALSE]_vars

\* C8 witness: game over was reached with a live message, whose timer has
\* decayed since.
C8_Witness ==
    pc = "over" /\ message /= None /\ decays > 0 /\ state.score > 0

----

\* C9 (as stated): a commit that makes pieces_dropped a multiple of 80 lowers
\* piece_drop_pos by exactly 1, and every other tick leaves it unchanged.
C9_EveryEighty ==
    [][ IF /\ state'.pieces_dropped = state.pieces_dropped + 1
           /\ state'.pieces_dropped % 80 = 0
        THEN state'.piece_drop_pos = state.piece_drop_pos - 1
        ELSE state'.piece_drop_pos = state.piece_drop_pos ]_vars

\* C9 (amended): piece_drop_pos changes only in a commit that makes
\* pieces_dropped a multiple of 80, and then by exactly -1; it is 9 before
\* the 80th commit, 8 from the 80th, 7 from the 160th, 6 from the 240th and
\* 5 from the 320th up to the 400th.
C9_Progression ==
    /\ [](state.pieces_dropped < 400 =>
            state.piece_drop_pos = 9 - (state.pieces_dropped \div 80))
    /\ [][ state'.piece_drop_pos /= state.piece_drop_pos =>
             /\ state'.pieces_dropped = state.pieces_dropped + 1
             /\ state'.pieces_dropped % 80 = 0
             /\ state'.piece_drop_pos = state.piece_drop_pos - 1 ]_vars

\* C9 witness: the 160th piece has been committed and the drop position is 7.
C9_Witness ==
    state.pieces_dropped = 160 /\ state.piece_drop_pos = 7

----

\* C10: while slot 0 holds a piece no longer than the field,
\* 0 <= piece_col <= FIELD_WIDTH - len(piece); a move-left at column 0 and a
\* move-right at the right edge leave piece_col unchanged and every other
\* move changes it by exactly 1, in any tick.
C10_Clamped ==
    (state.piece_queue[1] /= None /\ Len(ActivePiece) <= FIELD_WIDTH) =>
        /\ 0 <= state.piece_col
        /\ state.piece_col <= FIELD_WIDTH - Len(ActivePiece)
        /\ \A tick \in 0..(CLOCK_PERIOD - 1) : \A rnd \in RandomSource(pg) :
            /\ \A key \in {KEY_LEFT, ORD_A} :
                 update_game(state, key, tick, pg, rnd).state.piece_col =
                    IF state.piece_col = 0 THEN state.piece_col
                    ELSE state.piece_col - 1
            /\ \A key \in {KEY_RIGHT, ORD_D} :
                 update_game(state, key, tick, pg, rnd).state.piece_col =
                    IF state.piece_col + Len(ActivePiece) = FIELD_WIDTH
                    THEN state.piece_col
                    ELSE state.piece_col + 1

\* C10 witness: the active piece has been moved to the right edge.
C10_Witness ==
    /\ pc = "play"
    /\ state.piece_queue[1] /= None
    /\ Len(ActivePiece) > 1
    /\ state.piece_col + Len(ActivePiece) = FIELD_WIDTH

----

\* The field with a piece added at a column: the piece's counts land on the
\* field columns col .. col + len(piece) - 1.
PlacePiece(f, piece, col) ==
    [i \in 1..Len(f) |->
        IF col <= i - 1 /\ i - 1 < col + Len(piece)
        THEN f[i] + piece[i - col]
        ELSE f[i]]

Slot0 == state.piece_queue[1]

\* The clock_tick the driving loop passes to its next call of update_game.
NextTick == (clock_tick + 1) % CLOCK_PERIOD

DownKeys == {KEY_DOWN, ORD_S}

\* What a key does to piece_pos and piece_col while slot 0 holds a piece.
PosAfterKey(key) == IF key \in DownKeys THEN 0 ELSE state.piece_pos

ColAfterKey(key) ==
    IF key \in {KEY_LEFT, ORD_A} /\ state.piece_col > 0
    THEN state.piece_col - 1
    ELSE IF key \in {KEY_RIGHT, ORD_D}
            /\ state.piece_col + Len(ActivePiece) < FIELD_WIDTH
    THEN state.piece_col + 1
    ELSE state.piece_col

\* The next tick commits when it is clock-gated, slot 0 holds a piece and
\* piece_pos is 0 once the key has been applied.
Commits(key) ==
    NextTick % CLOCK_PERIOD = 0 /\ Slot0 /= None /\ PosAfterKey(key) = 0

----

\* C11: the queue always has exactly 3 slots, slots 1 and 2 always hold
\* pieces, and slot 0 turns None exactly in a commit tick and turns back to
\* a piece exactly in the next clock-gated tick (the reload).
C11_Queue ==
    /\ Len(state.piece_queue) = 3
    /\ \A i \in {2, 3} :
          /\ state.piece_queue[i] /= None
          /\ Sum(Get(state.piece_queue[i])) > 0
    /\ (Slot0 = None) => (state.pieces_dropped > 0 /\ gated > 0)
    /\ \A key \in Keys : \A rnd \in RandomSource(pg) :
          LET after == update_game(state, key, NextTick, pg, rnd).state.piece_queue[1]
          IN IF Slot0 /= None
             THEN (after = None) <=> Commits(key)
             ELSE (after /= None) <=> (NextTick % CLOCK_PERIOD = 0)

\* C11 witness: slot 0 is None after the second commit, with two pieces
\* waiting in slots 1 and 2.
C11_Witness ==
    /\ pc = "play"
    /\ Slot0 = None
    /\ state.pieces_dropped = 2
    /\ state.piece_queue[2] /= None /\ state.piece_queue[3] /= None

----

\* C12: update_game returns a message only in a tick that commits, and a
\* commit returns one exactly when a run is cleared, which is exactly when
\* the score grows.
C12_MessageOnlyOnClear ==
    \A key \in Keys : \A rnd \in RandomSource(pg) :
        LET res == update_game(state, key, NextTick, pg, rnd)
        IN /\ res.message /= None => Commits(key)
           /\ ~Commits(key) => res.state.score = state.score
           /\ Commits(key) =>
                LET placed == PlacePiece(state.game_field, ActivePiece,
                                         ColAfterKey(key))
                IN /\ (res.message /= None) <=> (Runs(placed, MIN_RECT_WIDTH) /= {})
                   /\ (res.message /= None) <=> (res.state.score > state.score)

\* C12 witness: the last tick committed a piece, cleared a run and returned
\* a message.
C12_Witness ==
    /\ pc = "play"
    /\ m /= None
    /\ Slot0 = None
    /\ clock_tick = 0
    /\ state.score > 0

----

\* A comma-delimited group of the string that sums to zero: it lies between
\* two commas or ends of the string and holds nothing but "0" (or nothing).
ZeroGroup(pattern) ==
    \E a \in 1..(Len(pattern) + 1) : \E b \in (a - 1)..Len(pattern) :
        /\ a = 1 \/ pattern[a - 1] = ","
        /\ b = Len(pattern) \/ pattern[b + 1] = ","
        /\ \A i \in a..b : pattern[i] = "0"

\* C13: scan_piece_pattern raises "Invalid pattern format." for every string
\* with a character other than a digit or a comma, raises "Empty piece
\* detected in pattern." for every other string with a group that sums to
\* zero, and returns the pieces for every other non-empty string.
C13_ScanErrors ==
    pc = "returned scan_piece_pattern" =>
        LET alien == \E i \in 1..Len(arg) : arg[i] \notin PatternChars
            res == Get(ret)
        IN /\ alien =>
                res.raised = "AssertionError" /\ res.text = "Invalid pattern format."
           /\ (~alien /\ ZeroGroup(arg) /\ arg /= <<>>) =>
                /\ res.raised = "AssertionError"
                /\ res.text = "Empty piece detected in pattern."
           /\ (~alien /\ ~ZeroGroup(arg) /\ arg /= <<>>) => res.raised = ""

----

\* The number, counted from 0, of the piece in slot 0, or of the piece that
\* was in slot 0 when slot 0 is None: one piece is committed per activation.
ActiveNumber ==
    IF Slot0 = None THEN state.pieces_dropped - 1 ELSE state.pieces_dropped

\* C14: a reload tick moves slot 1 to slot 0 and slot 2 to slot 1, puts the
\* generator's next piece in slot 2, sets piece_col to 0 and piece_pos to
\* piece_drop_pos; with a pattern of length L the k-th piece to become active
\* is pattern[k mod L], and the slots behind it hold the pieces that follow.
C14_Reload ==
    /\ (Slot0 = None /\ NextTick = 0) =>
          \A key \in Keys : \A rnd \in RandomSource(pg) :
              LET res == update_game(state, key, NextTick, pg, rnd)
              IN /\ res.state.piece_queue =
                       << state.piece_queue[2], state.piece_queue[3],
                          Some(piece_generator(pg, rnd).piece) >>
                 /\ res.pg = piece_generator(pg, rnd).pg
                 /\ res.state.piece_col = 0
                 /\ res.state.piece_pos = state.piece_drop_pos
                 /\ res.state.piece_drop_pos = state.piece_drop_pos
    /\ pg.mode = "pat" =>
          LET L == Len(pg.piece_pattern)
          IN /\ \A i \in 1..3 :
                   state.piece_queue[i] /= None =>
                       Get(state.piece_queue[i]) =
                           At(pg.piece_pattern, (ActiveNumber + i - 1) % L)
             /\ pg.pattern_index = (ActiveNumber + 3) % L

\* C14 witness: under a pattern of length 2 the piece numbered 2 has just been
\* reloaded, and it is the first piece of the pattern again.
C14_Witness ==
    /\ pc = "play"
    /\ Len(pg.piece_pattern) = 2
    /\ pg.piece_pattern[1] /= pg.piece_pattern[2]
    /\ state.pieces_dropped = 2
    /\ Slot0 = Some(pg.piece_pattern[1])
    /\ gated = 0
    /\ state.piece_col = 0 /\ state.piece_pos = state.piece_drop_pos

----

\* C15: in a commit tick the field handed to clear detection is the old field
\* with the piece added over its span and nothing else changed; when that
\* field has no run to clear, it is the field after the tick, the score is
\* unchanged, slot 0 is None and pieces_dropped is one more.
C15_Commit ==
    \A key \in Keys : \A rnd \in RandomSource(pg) :
        Commits(key) =>
            LET handled == HandleKey(state, key)
                placed == PlacePiece(state.game_field, ActivePiece,
                                     handled.piece_col)
                res == update_game(state, key, NextTick, pg, rnd)
            IN /\ fix_piece(handled).game_field = placed
               /\ \A i \in 1..FIELD_WIDTH :
                     placed[i] - state.game_field[i] =
                        IF handled.piece_col < i
                           /\ i <= handled.piece_col + Len(ActivePiece)
                        THEN ActivePiece[i - handled.piece_col]
                        ELSE 0
               /\ Runs(placed, MIN_RECT_WIDTH) = {} =>
                     /\ res.state.game_field = placed
                     /\ res.state.score = state.score
                     /\ res.state.piece_queue[1] = None
                     /\ res.state.pieces_dropped = state.pieces_dropped + 1

\* C15 witness: the second piece was committed on top of the first without
\* clearing a run: slot 0 is None, the score is 0 and a column holds more
\* than one piece can bring.
C15_Witness ==
    /\ pc = "play"
    /\ Slot0 = None
    /\ m = None
    /\ state.pieces_dropped = 2
    /\ state.score = 0
    /\ MaxColumn(state.game_field) >= 10

----

\* C16: one message slot in the driving loop: a message returned by a tick
\* takes the slot at once, whatever was in it, with time_left 15; a tick that
\* returns none leaves the slot to update_message alone, which lowers
\* time_left by 1 and empties the slot when it reaches 0.
C16_OneMessage ==
    [][(pc = "play" /\ pc' = "play") =>
          IF m' /= None
          THEN /\ message' = m'
               /\ Get(message').time_left = MESSAGE_SHOW_DURATION
          ELSE IF message = None THEN message' = None
          ELSE IF Get(message).time_left = 1 THEN message' = None
          ELSE message' = Some([Get(message) EXCEPT !.time_left = @ - 1])]_vars

\* C16 witness: the second piece of "1111" was dropped and committed at the
\* first clock-gated tick after its reload, 10 iterations after the first
\* commit, whose message was still live; the new message holds the slot
\* with time_left 15.
C16_Witness ==
    /\ pc = "play"
    /\ state.pieces_dropped = 2
    /\ state.score = 2
    /\ gated = 1
    /\ m /= None
    /\ message = m
    /\ Get(message).time_left = MESSAGE_SHOW_DURATION

----

\* The field once the active piece has been committed at a column.
Landed(col) ==
    clear_rects([state EXCEPT
                    !.game_field = PlacePiece(@, ActivePiece, col)]).state.game_field

\* C17: the key acts before the clock-gated step. In a clock-gated tick with
\* a piece in the air a fast-drop key commits the piece in that very tick,
\* and in a commit tick a left/right key moves the piece (within the field)
\* first, so that it lands at the shifted column.
C17_KeyFirst ==
    (Slot0 /= None /\ NextTick = 0) =>
        \A rnd \in RandomSource(pg) :
            /\ state.piece_pos > 0 =>
                 \A key \in DownKeys :
                     LET res == update_game(state, key, NextTick, pg, rnd)
                     IN /\ res.state.piece_pos = 0
                        /\ res.state.piece_queue[1] = None
                        /\ res.state.pieces_dropped = state.pieces_dropped + 1
                        /\ res.state.game_field = Landed(state.piece_col)
            /\ state.piece_pos = 0 =>
                 \A key \in {KEY_LEFT, ORD_A, KEY_RIGHT, ORD_D} :
                     LET res == update_game(state, key, NextTick, pg, rnd)
                     IN /\ res.state.piece_col = ColAfterKey(key)
                        /\ res.state.piece_queue[1] = None
                        /\ res.state.pieces_dropped = state.pieces_dropped + 1
                        /\ res.state.game_field = Landed(ColAfterKey(key))

\* C17 witness: the next tick is clock-gated, the second piece is still at
\* the top, moved right on a field that holds the first piece, and a
\* fast-drop key in that tick commits it where it is.
C17_Witness ==
    /\ pc = "play"
    /\ Slot0 /= None
    /\ NextTick = 0
    /\ gated = 0
    /\ state.piece_pos = state.piece_drop_pos
    /\ state.piece_col > 0
    /\ state.pieces_dropped = 1
    /\ LET res == update_game(state, KEY_DOWN, NextTick, pg, <<>>)
       IN /\ res.state.pieces_dropped = 2
          /\ res.state.game_field = PlacePiece(state.game_field, ActivePiece,
                                               state.piece_col)
          /\ res.state.game_field /= state.game_field

----

\* C18: after every tick the field has no run of MIN_RECT_WIDTH or more
\* adjacent columns with the same strictly positive value.
C18_NoRunLeft ==
    Runs(state.game_field, MIN_RECT_WIDTH) = {}

\* C18 witness: the last tick committed a piece, cleared a run and applied
\* gravity to columns that stay above 0.
C18_Witness ==
    /\ pc = "play"
    /\ Slot0 = None
    /\ m /= None
    /\ state.score > 0
    /\ \E i \in 1..FIELD_WIDTH : state.game_field[i] > 0
    /\ \E i \in 1..FIELD_WIDTH : state.game_field[i] = 0

----

\* A piece is on schedule when it has descended one step per clock-gated
\* tick since its reload, which is where it is as long as no fast-drop key
\* has moved it.
OnSchedule == state.piece_pos = state.piece_drop_pos - gated

\* C19: a piece reloaded at piece_pos = p = piece_drop_pos is committed no
\* later than the (p+1)-th clock-gated tick after the reload, exactly at the
\* (p+1)-th when no fast-drop key is pressed, and the reload that follows
\* comes at the first clock-gated tick after the commit.
C19_CommitSchedule ==
    /\ Slot0 /= None =>
          /\ 0 <= state.piece_pos
          /\ state.piece_pos <= state.piece_drop_pos - gated
    /\ \A key \in Keys : \A rnd \in RandomSource(pg) :
          LET res == update_game(state, key, NextTick, pg, rnd).state
              count == NextGated(state, NextTick)
          IN /\ (Slot0 /= None /\ NextTick = 0 /\ gated = state.piece_drop_pos) =>
                   /\ res.piece_queue[1] = None
                   /\ res.pieces_dropped = state.pieces_dropped + 1
             /\ (Slot0 /= None /\ key \notin DownKeys /\ OnSchedule) =>
                   IF res.piece_queue[1] = None
                   THEN count = state.piece_drop_pos + 1
                   ELSE res.piece_pos = res.piece_drop_pos - count
             /\ (Slot0 /= None /\ res.piece_queue[1] = None) =>
                   count <= state.piece_drop_pos + 1
             /\ Slot0 = None =>
                   IF NextTick = 0
                   THEN /\ res.piece_queue[1] /= None
                        /\ res.piece_pos = res.piece_drop_pos
                        /\ count = 0
                   ELSE res.piece_queue[1] = None

\* C19 witness: after the first speed-up a piece reloaded at piece_pos 8 has
\* been committed at its 9th clock-gated tick.
C19_Witness ==
    /\ pc = "play"
    /\ Slot0 = None
    /\ state.pieces_dropped > SPEEDUP_PERIOD + 1
    /\ state.piece_drop_pos = INITIAL_DROP_POS - 1
    /\ gated = state.piece_drop_pos + 1

----

\* C20: while slot 0 is None the key is ignored: a tick that is not
\* clock-gated changes nothing, and a clock-gated tick only reloads, with
\* the field, score, piece_drop_pos and pieces_dropped as they were,
\* piece_col 0 and piece_pos = piece_drop_pos, whatever the key.
C20_KeysIgnored ==
    Slot0 = None =>
        \A key \in Keys : \A rnd \in RandomSource(pg) :
            LET res == update_game(state, key, NextTick, pg, rnd)
            IN IF NextTick /= 0
               THEN res.state = state /\ res.pg = pg /\ res.message = None
               ELSE /\ res.state.game_field = state.game_field
                    /\ res.state.score = state.score
                    /\ res.state.piece_drop_pos = state.piece_drop_pos
                    /\ res.state.pieces_dropped = state.pieces_dropped
                    /\ res.state.piece_col = 0
                    /\ res.state.piece_pos = state.piece_drop_pos
                    /\ res.message = None
                    /\ res = update_game(state, NO_KEY, NextTick, pg, rnd)

\* C20 witness: a piece was committed away from the left edge and four
\* ticks have passed since with slot 0 None; the next tick is the reload.
C20_Witness ==
    /\ pc = "play"
    /\ Slot0 = None
    /\ state.piece_col > 0
    /\ state.piece_pos = 0
    /\ clock_tick = CLOCK_PERIOD - 1
    /\ NextTick = 0

====
